---- MODULE Spec2Model ----
(***************************************************************************)
(* Maze Clash server (src/server.js): single-slot matchmaking, room        *)
(* registry, authoritative moves, win detection, delayed teardown and      *)
(* disconnect teardown, as one state machine.  Every Socket.IO handler     *)
(* runs to completion, so each handler is one action.                      *)
(*                                                                         *)
(* A tile grid g[y][x] is kept as the set of its TILE_EMPTY tiles <<x, y>>; *)
(* every other tile inside width x height is TILE_WALL.                    *)
(***************************************************************************)
EXTENDS Integers, Sequences, FiniteSets, TLC

\* ---------------------------------------------------------------- constants

TILE_EMPTY == 0
TILE_WALL == 1
TEARDOWN_MS == 4500

\* Bounds of the model.  MazeN stands for MAZE_LOGICAL (7 in the source):
\* mazes are generated over MazeN x MazeN logical cells.
MazeN == 2
MaxClock == 4500
MaxRooms == 2
MaxMoves == 6
FairMoves == 4
MaxMazeN == 3
ProbeW == 3
ProbeH == 3

\* Milliseconds that pass in one Tick: half the teardown delay, so that a
\* pending teardown is observed before, and at, its due time.
TickMs == TEARDOWN_MS \div 2

\* Connection identifiers (socket.id).  NoSocket is the null waitingSocket.
Sockets == {"a", "b", "c"}
NoSocket == "null"

COLOR_A == "#34ff72"
COLOR_B == "#ff4d9e"

\* ---------------------------------------------------------------- maze logic

Tile(grid, x, y) == IF <<x, y>> \in grid THEN TILE_EMPTY ELSE TILE_WALL

Dirs4 == << <<1, 0>>, <<-1, 0>>, <<0, 1>>, <<0, -1>> >>

Swap(s, i, j) == [s EXCEPT ![i] = s[j], ![j] = s[i]]

\* The Fisher-Yates loop of carve: i = 3, 2, 1 (0-based), j drawn from 0..i.
Shuffles ==
  { Swap(Swap(Swap(Dirs4, 4, j3), 3, j2), 2, j1) : j3 \in 1..4, j2 \in 1..3, j1 \in 1..2 }

\* carve(cx, cy) for every outcome of its shuffle.  st = [g, visited]; the
\* result is the set of states the call can return.  A direction whose
\* neighbour is outside the grid or already visited when the call starts is
\* skipped by the loop whatever its place in the order (visited cells stay
\* visited), so orders that differ only in such directions are taken once.
RECURSIVE carve(_, _, _, _), carveLoop(_, _, _, _, _, _)

\* Mutant: the loop opens the neighbour's cell tile but not the tile between.
carveLoopNoPassage(n, S, dirs, i, cx, cy) ==
  IF i > Len(dirs) THEN S
  ELSE LET nx == cx + dirs[i][1]
           ny == cy + dirs[i][2]
           step(st) ==
             IF nx >= 0 /\ nx < n /\ ny >= 0 /\ ny < n /\ <<nx, ny>> \notin st.visited
             THEN carve(n, [st EXCEPT !.g = @ \cup {<<nx * 2 + 1, ny * 2 + 1>>}], nx, ny)
             ELSE {st}
       IN carveLoop(n, UNION { step(st) : st \in S }, dirs, i + 1, cx, cy)

\* The for loop of carve over the shuffled directions, from the i-th on.
carveLoop(n, S, dirs, i, cx, cy) ==
  IF i > Len(dirs) THEN S
  ELSE LET dx == dirs[i][1]
           dy == dirs[i][2]
           nx == cx + dx
           ny == cy + dy
           step(st) ==
             IF nx >= 0 /\ nx < n /\ ny >= 0 /\ ny < n /\ <<nx, ny>> \notin st.visited
             THEN carve(n, [st EXCEPT !.g = @ \cup {<<cx * 2 + 1 + dx, cy * 2 + 1 + dy>>,
                                                    <<nx * 2 + 1, ny * 2 + 1>>}], nx, ny)
             ELSE {st}
       IN carveLoop(n, UNION { step(st) : st \in S }, dirs, i + 1, cx, cy)

\* Mutant: carve opens the tile at (2cx, 2cy) instead of (2cx + 1, 2cy + 1).
carveEvenTile(n, st, cx, cy) ==
  LET st1 == [g |-> st.g \cup {<<cx * 2, cy * 2>>},
              visited |-> st.visited \cup {<<cx, cy>>}]
      open(d) == /\ cx + d[1] >= 0 /\ cx + d[1] < n
                 /\ cy + d[2] >= 0 /\ cy + d[2] < n
                 /\ <<cx + d[1], cy + d[2]>> \notin st1.visited
  IN UNION { carveLoop(n, {st1}, dirs, 1, cx, cy) :
               dirs \in { SelectSeq(s, open) : s \in Shuffles } }

\* carve(cx, cy): marks and opens the cell, then loops over the shuffle.
carve(n, st, cx, cy) ==
  LET st1 == [g |-> st.g \cup {<<cx * 2 + 1, cy * 2 + 1>>},
              visited |-> st.visited \cup {<<cx, cy>>}]
      open(d) == /\ cx + d[1] >= 0 /\ cx + d[1] < n
                 /\ cy + d[2] >= 0 /\ cy + d[2] < n
                 /\ <<cx + d[1], cy + d[2]>> \notin st1.visited
  IN UNION { carveLoop(n, {st1}, dirs, 1, cx, cy) :
               dirs \in { SelectSeq(s, open) : s \in Shuffles } }

\* Every maze object generateMaze(n) can return.
generateMaze(n) ==
  LET gridW == n * 2 + 1
      gridH == n * 2 + 1
  IN { [grid |-> st.g, width |-> gridW, height |-> gridH] :
         st \in carve(n, [g |-> {}, visited |-> {}], 0, 0) }

Mazes == generateMaze(MazeN)

\* The maze size the server asks for: generateMaze(MAZE_LOGICAL).
MAZE_LOGICAL == 7

\* carve in a run where every shuffle comes out as the same order dirs, as
\* a loop over an explicit call stack (the recursion of the source is as
\* deep as the maze has cells).  st = [g, visited, stack]; stack holds the
\* cells whose call of carve has not returned, the innermost call last.
\* One step runs the innermost call up to its next recursive call (the first
\* direction of dirs whose neighbour is inside and unvisited), or returns
\* from it when its loop finds no such direction.
carveStep(n, st, dirs) ==
  IF st.stack = << >> THEN st
  ELSE LET c == st.stack[Len(st.stack)]
           open(d) == /\ c[1] + d[1] >= 0 /\ c[1] + d[1] < n
                      /\ c[2] + d[2] >= 0 /\ c[2] + d[2] < n
                      /\ <<c[1] + d[1], c[2] + d[2]>> \notin st.visited
           todo == SelectSeq(dirs, open)
       IN IF todo = << >> THEN [st EXCEPT !.stack = SubSeq(@, 1, Len(@) - 1)]
          ELSE LET dx == todo[1][1]
                   dy == todo[1][2]
                   nx == c[1] + dx
                   ny == c[2] + dy
               IN [g |-> st.g \cup {<<c[1] * 2 + 1 + dx, c[2] * 2 + 1 + dy>>,
                                     <<nx * 2 + 1, ny * 2 + 1>>},
                   visited |-> st.visited \cup {<<nx, ny>>},
                   stack |-> Append(st.stack, <<nx, ny>>)]

\* Up to k steps of carveStep, stopping when carve(0, 0) has returned; k is
\* halved to keep the evaluation shallow.
RECURSIVE carveSteps(_, _, _, _)

carveSteps(n, st, dirs, k) ==
  IF k = 0 \/ st.stack = << >> THEN st
  ELSE IF k = 1 THEN carveStep(n, st, dirs)
  ELSE LET half == carveSteps(n, st, dirs, k \div 2)
       IN IF half.stack = << >> THEN half
          ELSE carveSteps(n, half, dirs, k - k \div 2)

\* generateMaze(n) in a run where every shuffle comes out as dirs: carve(0, 0)
\* marks and opens its cell, and every other cell is entered and left once.
generateMazeOrdered(n, dirs) ==
  LET st0 == [g |-> {<<1, 1>>}, visited |-> {<<0, 0>>}, stack |-> << <<0, 0>> >>]
  IN [grid |-> carveSteps(n, st0, dirs, 2 * n * n).g,
      width |-> n * 2 + 1, height |-> n * 2 + 1]

\* Mazes generateMaze(MAZE_LOGICAL) can return: one for each order the
\* shuffle can produce.
ServerMazes == { generateMazeOrdered(MAZE_LOGICAL, dirs) : dirs \in Shuffles }

\* ---------------------------------------------------------------- spawn placement

Cell(x, y) == [x |-> x, y |-> y]

\* Row-major scan order of the two nested for loops (y outer, x inner).
ScanBefore(c, d) == c.y < d.y \/ (c.y = d.y /\ c.x < d.x)

FirstInScan(S) == CHOOSE c \in S : \A d \in S : d = c \/ ScanBefore(c, d)

EmptyCells(m) == { Cell(t[1], t[2]) : t \in m.grid }

\* All x in 0..w-1, y in 0..h-1.
GridCells(m) == { Cell(x, y) : x \in 0..(m.width - 1), y \in 0..(m.height - 1) }

\* x <= Math.floor(gridW * 0.33) || y <= Math.floor(gridH * 0.33)
leftTopTest(m, x, y) == x <= (m.width * 33) \div 100 \/ y <= (m.height * 33) \div 100

\* x >= Math.ceil(gridW * 0.66) || y >= Math.ceil(gridH * 0.66)
rightBottomTest(m, x, y) ==
  x >= (m.width * 66 + 99) \div 100 \/ y >= (m.height * 66 + 99) \div 100

\* Mutant: pickRandomCell without its scan for any empty tile.
pickRandomCellNoAnyScan(m, region) ==
  LET inRegion == EmptyCells(m) \cap region
  IN IF inRegion # {} THEN inRegion ELSE {Cell(1, 1)}

\* pickRandomCell: every cell it can return.  A random draw can hit any empty
\* tile that passes the region test; when all draws miss, the region scan
\* returns the first such tile (one of the same set); with no such tile, the scan for any empty
\* tile returns the first one; with no empty tile at all, { x: 1, y: 1 }.
\* The region test is passed as the set of cells it accepts.
pickRandomCell(m, region) ==
  LET inRegion == EmptyCells(m) \cap region
  IN IF inRegion # {} THEN inRegion
     ELSE IF EmptyCells(m) # {} THEN {FirstInScan(EmptyCells(m))}
     ELSE {Cell(1, 1)}

\* Squared Euclidean distance; distance(a, b) is its square root.
distance2(a, b) == (a.x - b.x) * (a.x - b.x) + (a.y - b.y) * (a.y - b.y)

Max(i, j) == IF i >= j THEN i ELSE j

\* distance(a, b) < minDist with minDist = Math.max(gridW, gridH) * 0.45,
\* squared and scaled by 400 to stay in the integers.
TooClose(m, a, b) ==
  400 * distance2(a, b) < 81 * Max(m.width, m.height) * Max(m.width, m.height)

\* Mutant: the scan does not skip wall tiles.
FarthestFromAnyTile(m, aStart) ==
  FirstInScan({ c \in GridCells(m) : \A d \in GridCells(m) : distance2(aStart, d) <= distance2(aStart, c) })

\* Mutant: the scan keeps the last tile of maximal distance (d >= bestD).
FarthestFromLast(m, aStart) ==
  LET E == EmptyCells(m)
      far == { c \in E : \A d \in E : distance2(aStart, d) <= distance2(aStart, c) }
  IN IF E = {} THEN aStart
     ELSE CHOOSE c \in far : \A d \in far : d = c \/ ScanBefore(d, c)

\* The exhaustive scan: the first empty tile, in scan order, of maximal
\* distance from aStart (best starts as aStart, bestD as -1).
FarthestFrom(m, aStart) ==
  LET E == EmptyCells(m)
  IN IF E = {} THEN aStart
     ELSE FirstInScan({ c \in E : \A d \in E : distance2(aStart, d) <= distance2(aStart, c) })

\* Mutant: the placement keeps the last drawn pair, without the exhaustive
\* scan that repairs a pair too close.
PlaceSpawnsNoRepair(m) ==
  pickRandomCell(m, { c \in GridCells(m) : leftTopTest(m, c.x, c.y) })
    \X pickRandomCell(m, { c \in GridCells(m) : rightBottomTest(m, c.x, c.y) })

\* Every <<aStart, bStart>> the placement code can end with: a drawn pair
\* that is far enough apart leaves the while loop at once; a pair too close
\* after the last try is repaired by the exhaustive scan.
PlaceSpawns(m) ==
  LET As == pickRandomCell(m, { c \in GridCells(m) : leftTopTest(m, c.x, c.y) })
      Bs == pickRandomCell(m, { c \in GridCells(m) : rightBottomTest(m, c.x, c.y) })
  IN { p \in As \X Bs : ~TooClose(m, p[1], p[2]) }
     \cup { <<a, FarthestFrom(m, a)>> : a \in { c \in As : \E b \in Bs : TooClose(m, c, b) } }

\* ---------------------------------------------------------------- state

VARIABLES
  connected,      \* sockets that have connected and not yet disconnected
  waitingSocket,  \* the pending participant, or NoSocket
  rooms,          \* roomId -> [maze, players]
  joined,         \* roomId -> sockets in that Socket.IO channel
  timers,         \* pending setTimeout callbacks, in firing order
  now,            \* Date.now()
  movesLeft,      \* successful moves the run may still make (a bound of the model)
  roomCap,        \* rooms the run may hold at once (a bound of the model)
  wonAt,          \* roomId -> time of the room's latest win (the room is Finished)
  event,          \* the event handled last: its kind, its socket, who was pending
  emitted,        \* what that event sent, in order
  probe           \* a call of one of the pure functions, with its result

vars == <<connected, waitingSocket, rooms, joined, timers, now, movesLeft, roomCap, wonAt, event, emitted, probe>>

\* The event label: matchmaking and disconnect events record their socket
\* and the participant pending when they began.
Ev(kind, socket) == [kind |-> kind, socket |-> socket, pending |-> waitingSocket]

Msg(to, name, payload) == [to |-> to, name |-> name, payload |-> payload]

makeRoomId(a, b) == <<"r", a, b, now>>

Remove(f, k) == [x \in DOMAIN f \ {k} |-> f[x]]

Put(f, k, v) == (k :> v) @@ f

\* Sockets in channel roomId (none when the channel does not exist).
InChannel(j, roomId) == IF roomId \in DOMAIN j THEN j[roomId] ELSE {}

PlayerView(p) == [x |-> p.x, y |-> p.y, color |-> p.color, exitX |-> p.exitX, exitY |-> p.exitY]

\* No pure function is under examination.
NoCall == [fn |-> "none"]

\* The state after start-up: nobody pending, no room, no timer.
\* io.on('connection') only logs and registers the handlers, so a run starts
\* with its sockets connected; a socket id is never reused after disconnect.
InitWith(sockets, moveBudget, roomBudget) ==
  /\ connected = sockets
  /\ waitingSocket = NoSocket
  /\ rooms = << >>
  /\ joined = << >>
  /\ timers = << >>
  /\ now = 0
  /\ movesLeft = moveBudget
  /\ roomCap = roomBudget
  /\ wonAt = << >>
  /\ event = Ev("start", NoSocket)
  /\ emitted = << >>
  /\ probe = NoCall

\* Matchmaking scenario: three sockets, up to MaxRooms rooms at once, no
\* move.
InitLobby == InitWith(Sockets, 0, MaxRooms)

\* Game scenario: two sockets, one room at a time, up to MaxMoves successful
\* moves.
InitGame == InitWith({"a", "b"}, MaxMoves, 1)


\* ---------------------------------------------------------------- handlers

\* Mutant: both registry writes keyed by pB.id, so pA is lost.
NewPlayersOnlyRequester(a, b, aStart, bStart) ==
  (b :> [id |-> b, x |-> bStart.x, y |-> bStart.y, color |-> COLOR_B,
         exitX |-> aStart.x, exitY |-> aStart.y])

\* Mutant: both registry writes keyed by pA.id, so pB replaces pA.
NewPlayersKeyedByPending(a, b, aStart, bStart) ==
  (a :> [id |-> b, x |-> bStart.x, y |-> bStart.y, color |-> COLOR_B,
         exitX |-> aStart.x, exitY |-> aStart.y])

\* Mutant: each player's exit is its own start.
NewPlayersOwnGoal(a, b, aStart, bStart) ==
  (a :> [id |-> a, x |-> aStart.x, y |-> aStart.y, color |-> COLOR_A,
         exitX |-> aStart.x, exitY |-> aStart.y])
  @@ (b :> [id |-> b, x |-> bStart.x, y |-> bStart.y, color |-> COLOR_B,
            exitX |-> bStart.x, exitY |-> bStart.y])

\* The two player objects pA (the pending socket) and pB (the requester).
NewPlayers(a, b, aStart, bStart) ==
  (a :> [id |-> a, x |-> aStart.x, y |-> aStart.y, color |-> COLOR_A,
         exitX |-> bStart.x, exitY |-> bStart.y])
  @@ (b :> [id |-> b, x |-> bStart.x, y |-> bStart.y, color |-> COLOR_B,
            exitX |-> aStart.x, exitY |-> aStart.y])

NewRoom(mazeObj, a, b, aStart, bStart) ==
  [maze |-> mazeObj, players |-> NewPlayers(a, b, aStart, bStart)]

MatchFound(roomId, room) ==
  [roomId |-> roomId, maze |-> room.maze.grid, width |-> room.maze.width,
   height |-> room.maze.height,
   players |-> [p \in DOMAIN room.players |-> PlayerView(room.players[p])]]

\* Every outcome of generateMaze followed by the spawn placement.
Layouts ==
  UNION { { [maze |-> m, aStart |-> sp[1], bStart |-> sp[2]] : sp \in PlaceSpawns(m) } : m \in Mazes }

\* socket.on('findMatch') when a different socket is pending: room creation.
Pair(s) ==
  LET roomId == makeRoomId(waitingSocket, s)
  IN /\ Cardinality(DOMAIN rooms \cup {roomId}) <= roomCap
     /\ \E lay \in Layouts :
          LET room == NewRoom(lay.maze, waitingSocket, s, lay.aStart, lay.bStart)
              chan == InChannel(joined, roomId) \cup {waitingSocket, s}
          IN /\ rooms' = Put(rooms, roomId, room)
             /\ joined' = Put(joined, roomId, chan)
             /\ emitted' = << Msg(chan, "matchFound", MatchFound(roomId, room)),
                              Msg(chan, "status", "Game started - reach the glowing exit!") >>
     /\ waitingSocket' = NoSocket
     /\ wonAt' = Remove(wonAt, roomId)
     /\ event' = Ev("findMatch", s)
     /\ UNCHANGED <<connected, timers, now, movesLeft, roomCap, probe>>

\* Mutant: findMatch without the same-socket check.
FindMatchNoDuplicateCheck(s) ==
  /\ s \in connected
  /\ IF waitingSocket = NoSocket
     THEN /\ waitingSocket' = s
          /\ emitted' = << Msg({s}, "status", "Waiting for an opponent...") >>
          /\ event' = Ev("findMatch", s)
          /\ UNCHANGED <<connected, rooms, joined, timers, now, movesLeft, roomCap, wonAt, probe>>
     ELSE Pair(s)

\* socket.on('findMatch')
FindMatch(s) ==
  /\ s \in connected
  /\ IF waitingSocket = NoSocket
     THEN /\ waitingSocket' = s
          /\ emitted' = << Msg({s}, "status", "Waiting for an opponent...") >>
          /\ event' = Ev("findMatch", s)
          /\ UNCHANGED <<connected, rooms, joined, timers, now, movesLeft, roomCap, wonAt, probe>>
     ELSE IF waitingSocket = s
     THEN /\ emitted' = << Msg({s}, "status", "Still waiting...") >>
          /\ event' = Ev("findMatch", s)
          /\ UNCHANGED <<connected, waitingSocket, rooms, joined, timers, now, movesLeft, roomCap, wonAt, probe>>
     ELSE Pair(s)

\* The deltas table of the move handler.
MoveDirs == {"up", "down", "left", "right"}

deltas(dir) ==
  CASE dir = "up" -> <<0, -1>>
    [] dir = "down" -> <<0, 1>>
    [] dir = "left" -> <<-1, 0>>
    [] dir = "right" -> <<1, 0>>

\* The candidate tile of a move: player position plus the direction's delta.
Candidate(player, dir) == Cell(player.x + deltas(dir)[1], player.y + deltas(dir)[2])

OutOfBounds(m, c) == c.x < 0 \/ c.y < 0 \/ c.x >= m.width \/ c.y >= m.height

\* Mutant: the move handler without its wall test.
MoveRejectedNoWallTest(s, roomId, dir) ==
  \/ roomId \notin DOMAIN rooms
  \/ s \notin DOMAIN rooms[roomId].players
  \/ dir \notin MoveDirs
  \/ OutOfBounds(rooms[roomId].maze, Candidate(rooms[roomId].players[s], dir))

\* The move handler returns early (nothing changed, nothing sent).
MoveRejected(s, roomId, dir) ==
  \/ roomId \notin DOMAIN rooms
  \/ s \notin DOMAIN rooms[roomId].players
  \/ dir \notin MoveDirs
  \/ OutOfBounds(rooms[roomId].maze, Candidate(rooms[roomId].players[s], dir))
  \/ LET c == Candidate(rooms[roomId].players[s], dir)
     IN Tile(rooms[roomId].maze.grid, c.x, c.y) = TILE_WALL

\* Mutant: the coordinates are stored crosswise.
MovedCrosswise(room, s, c) == [room EXCEPT !.players[s].x = c.y, !.players[s].y = c.x]

\* player.x = nx; player.y = ny
Moved(room, s, c) == [room EXCEPT !.players[s].x = c.x, !.players[s].y = c.y]

\* player.x === player.exitX && player.y === player.exitY
AtExit(p) == p.x = p.exitX /\ p.y = p.exitY

StateOf(room) == [p \in DOMAIN room.players |-> PlayerView(room.players[p])]

\* Mutant: the maze is revealed before the game-over broadcast.
MoveBroadcastsRevealFirst(s, roomId, room) ==
  LET chan == InChannel(joined, roomId)
      state == << Msg(chan, "state", StateOf(room)) >>
  IN IF AtExit(room.players[s])
     THEN state \o << Msg(chan, "revealMaze", room.maze.grid),
                      Msg(chan, "gameOver", [winner |-> s, winnerColor |-> room.players[s].color]) >>
     ELSE state

\* What a successful move sends to the room's channel, in order.
MoveBroadcasts(s, roomId, room) ==
  LET chan == InChannel(joined, roomId)
      state == << Msg(chan, "state", StateOf(room)) >>
  IN IF AtExit(room.players[s])
     THEN state \o << Msg(chan, "gameOver", [winner |-> s, winnerColor |-> room.players[s].color]),
                      Msg(chan, "revealMaze", room.maze.grid) >>
     ELSE state

\* setTimeout(..., 4500) of the win branch.
TimersAfterMove(s, roomId, room) ==
  IF AtExit(room.players[s])
  THEN Append(timers, [roomId |-> roomId, due |-> now + TEARDOWN_MS])
  ELSE timers

\* rooms and deltas are plain object literals, so a lookup by a property
\* name of Object.prototype finds an inherited value that is truthy and is
\* neither a room nor a delta pair.  InheritedKey stands for those names as
\* a direction, InheritedRoomId as a room id.
InheritedKey == "constructor"
InheritedRoomId == <<"constructor">>

\* What a client can put in a move message: a room of the registry with one
\* of the four directions, an unknown one or an inherited property name, or
\* a room id that is not in the registry.
StaleRoomId == <<"r", "a", "b", -1>>
MoveInputs ==
  ((DOMAIN rooms) \X (MoveDirs \cup {"jump", InheritedKey}))
  \cup {<<StaleRoomId, "up">>, <<InheritedRoomId, "up">>}

\* The move handler throws a TypeError.  With an inherited room id, r is
\* truthy and r.players is undefined, so r.players[socket.id] throws.  With
\* an inherited direction from a member, d is truthy and d[0], d[1] are
\* undefined, nx and ny are NaN, every comparison of the bounds test is
\* false, r.maze.grid[NaN] is undefined, and indexing it throws.
MoveThrows(s, roomId, dir) ==
  \/ roomId = InheritedRoomId
  \/ /\ roomId \in DOMAIN rooms
     /\ s \in DOMAIN rooms[roomId].players
     /\ dir = InheritedKey

\* No handler catches the error and the program installs no
\* uncaughtException handler: the process ends, with it the registry, the
\* pending slot, the timers and every connection.
Uncaught ==
  /\ event' = [kind |-> "uncaught", socket |-> NoSocket, pending |-> NoSocket]
  /\ connected' = {}
  /\ waitingSocket' = NoSocket
  /\ rooms' = << >>
  /\ joined' = << >>
  /\ timers' = << >>
  /\ wonAt' = << >>
  /\ emitted' = << >>
  /\ UNCHANGED <<now, movesLeft, roomCap, probe>>

\* socket.on('move')
Move(s, roomId, dir) ==
  /\ s \in connected
  /\ IF MoveThrows(s, roomId, dir)
     THEN Uncaught
     ELSE IF MoveRejected(s, roomId, dir)
     THEN /\ event' = [kind |-> "move", socket |-> NoSocket, pending |-> NoSocket]
          /\ emitted' = << >>
          /\ UNCHANGED <<connected, waitingSocket, rooms, joined, timers, now, movesLeft, roomCap, wonAt, probe>>
     ELSE LET room == Moved(rooms[roomId], s, Candidate(rooms[roomId].players[s], dir))
          IN /\ event' = [kind |-> "move", socket |-> NoSocket, pending |-> NoSocket]
             /\ movesLeft > 0
             /\ movesLeft' = movesLeft - 1
             /\ rooms' = [rooms EXCEPT ![roomId] = room]
             /\ emitted' = MoveBroadcasts(s, roomId, room)
             /\ timers' = TimersAfterMove(s, roomId, room)
             /\ wonAt' = IF AtExit(room.players[s]) THEN Put(wonAt, roomId, now) ELSE wonAt
             /\ UNCHANGED <<connected, waitingSocket, joined, now, roomCap, probe>>

\* Mutant: deleting an id that is not in the registry empties the registry.
DeleteRoomOrReset(roomId) == IF roomId \in DOMAIN rooms THEN Remove(rooms, roomId) ELSE << >>

\* Mutant: the callback leaves the registry alone.
DeleteRoomSkipped(roomId) == rooms

\* delete rooms[roomId]
DeleteRoom(roomId) == Remove(rooms, roomId)

\* The delayed callback of a win: socketsLeave(roomId); delete rooms[roomId].
Teardown ==
  /\ timers # << >>
  /\ now >= Head(timers).due
  /\ LET roomId == Head(timers).roomId
     IN /\ joined' = Remove(joined, roomId)
        /\ rooms' = DeleteRoom(roomId)
        /\ wonAt' = Remove(wonAt, roomId)
        /\ event' = [kind |-> "teardown", socket |-> NoSocket, pending |-> NoSocket]
  /\ timers' = Tail(timers)
  /\ emitted' = << >>
  /\ UNCHANGED <<connected, waitingSocket, now, movesLeft, roomCap, probe>>

\* Socket.IO leaves every channel of a closing socket before 'disconnect' fires.
LeaveAll(j, s) == [r \in { q \in DOMAIN j : j[q] \ {s} # {} } |-> j[r] \ {s}]

\* Mutant: the loop skips rooms that have recorded a win.
RoomsOfUnfinished(s) ==
  { r \in DOMAIN rooms : s \in DOMAIN rooms[r].players /\ r \notin DOMAIN wonAt }

\* Rooms of the registry that have s as a player: the rooms the loop deletes.
RoomsOf(s) == { r \in DOMAIN rooms : s \in DOMAIN rooms[r].players }

Orders(S) == { o \in [1..Cardinality(S) -> S] : \A i, j \in 1..Cardinality(S) : o[i] = o[j] => i = j }

\* Mutant: the pending slot is left alone.
WaitingKept(s) == waitingSocket

\* if (waitingSocket && waitingSocket.id === socket.id) waitingSocket = null
WaitingAfterDisconnect(s) ==
  IF waitingSocket # NoSocket /\ waitingSocket = s THEN NoSocket ELSE waitingSocket

\* socket.on('disconnect')
Disconnect(s) ==
  /\ s \in connected
  /\ connected' = connected \ {s}
  /\ waitingSocket' = WaitingAfterDisconnect(s)
  /\ LET left == LeaveAll(joined, s)
         gone == RoomsOf(s)
     IN /\ \E o \in Orders(gone) :
             emitted' = [i \in 1..Cardinality(gone) |->
                           Msg(InChannel(left, o[i]), "opponentDisconnected", << >>)]
        /\ joined' = [r \in { q \in DOMAIN left :
                                q \in gone => left[q] \ (DOMAIN rooms[q].players \cap connected') # {} }
                        |-> IF r \in gone THEN left[r] \ (DOMAIN rooms[r].players \cap connected')
                            ELSE left[r]]
        /\ rooms' = [r \in DOMAIN rooms \ gone |-> rooms[r]]
        /\ wonAt' = [r \in DOMAIN wonAt \ gone |-> wonAt[r]]
  /\ event' = Ev("disconnect", s)
  /\ UNCHANGED <<timers, now, movesLeft, roomCap, probe>>

\* Time passes.
Tick ==
  /\ now + TickMs <= MaxClock
  /\ now' = now + TickMs
  /\ event' = [kind |-> "tick", socket |-> NoSocket, pending |-> NoSocket]
  /\ emitted' = << >>
  /\ UNCHANGED <<connected, waitingSocket, rooms, joined, timers, movesLeft, roomCap, wonAt, probe>>

Next ==
  \/ \E s \in Sockets : FindMatch(s)
  \/ \E s \in Sockets : \E req \in MoveInputs : Move(s, req[1], req[2])
  \/ \E s \in Sockets : Disconnect(s)
  \/ Teardown
  \/ Tick

\* The matchmaking scenario has no successful move, so no win and no timer:
\* its events are match requests and disconnects.
NextLobby ==
  \/ \E s \in Sockets : FindMatch(s)
  \/ \E s \in Sockets : Disconnect(s)

SpecLobby == InitLobby /\ [][NextLobby]_vars

SpecGame == InitGame /\ [][Next]_vars

\* ---------------------------------------------------------------- timers that fire

\* Game scenario with FairMoves successful moves, enough for one win.
InitFair == InitWith({"a", "b"}, FairMoves, 1)

\* Time passes: like Tick, and past MaxClock for as long as a timer is
\* pending that is not yet due, so that the model's clock never stops
\* short of a scheduled teardown.
Elapse ==
  /\ now + TickMs <= MaxClock \/ (timers # << >> /\ now < Head(timers).due)
  /\ now' = now + TickMs
  /\ event' = [kind |-> "tick", socket |-> NoSocket, pending |-> NoSocket]
  /\ emitted' = << >>
  /\ UNCHANGED <<connected, waitingSocket, rooms, joined, timers, movesLeft, roomCap, wonAt, probe>>

NextFair ==
  \/ \E s \in Sockets : FindMatch(s)
  \/ \E s \in Sockets : \E req \in MoveInputs : Move(s, req[1], req[2])
  \/ \E s \in Sockets : Disconnect(s)
  \/ Teardown
  \/ Elapse

\* Time keeps passing, and a timer that is due fires (Node runs the callback
\* of an expired setTimeout).
SpecFair == InitFair /\ [][NextFair]_vars /\ WF_vars(Elapse) /\ WF_vars(Teardown)

\* ---------------------------------------------------------------- the pure functions

\* generateMaze(n) for every n up to MaxMazeN.
MazesOf == [n \in 1..MaxMazeN |-> generateMaze(n)]

\* Grids handed to pickRandomCell: every ProbeW x ProbeH grid of walls and
\* empty tiles (generated or not), kept like a maze's grid.
ProbeGrids ==
  { [grid |-> g, width |-> ProbeW, height |-> ProbeH] :
      g \in SUBSET ((0..(ProbeW - 1)) \X (0..(ProbeH - 1))) }

\* Region tests handed to pickRandomCell, each as the set of cells it
\* accepts: the two tests of the pairing code, one that accepts nothing, one
\* that accepts everything.
ProbeRegions(m) ==
  { { c \in GridCells(m) : leftTopTest(m, c.x, c.y) },
    { c \in GridCells(m) : rightBottomTest(m, c.x, c.y) },
    {},
    GridCells(m) }

\* No connection exists; a run is one call of one pure function.
InitPure == InitWith({}, 0, 0)

\* A call generateMaze(n).
CallGenerateMaze ==
  /\ probe.fn = "none"
  /\ \E n \in 1..MaxMazeN : \E m \in MazesOf[n] :
       probe' = [fn |-> "generateMaze", n |-> n, maze |-> m]
  /\ UNCHANGED <<connected, waitingSocket, rooms, joined, timers, now, movesLeft, roomCap, wonAt, event, emitted>>

\* A call pickRandomCell(grid, regionTest).
CallPickRandomCell ==
  /\ probe.fn = "none"
  /\ \E m \in ProbeGrids : \E region \in ProbeRegions(m) : \E c \in pickRandomCell(m, region) :
       probe' = [fn |-> "pickRandomCell", maze |-> m, region |-> region, cell |-> c]
  /\ UNCHANGED <<connected, waitingSocket, rooms, joined, timers, now, movesLeft, roomCap, wonAt, event, emitted>>

\* The spawn placement of the pairing code on a generated maze.
CallPlaceSpawns ==
  /\ probe.fn = "none"
  /\ \E n \in 1..MaxMazeN : \E m \in MazesOf[n] : \E sp \in PlaceSpawns(m) :
       probe' = [fn |-> "placeSpawns", n |-> n, maze |-> m, aStart |-> sp[1], bStart |-> sp[2]]
  /\ UNCHANGED <<connected, waitingSocket, rooms, joined, timers, now, movesLeft, roomCap, wonAt, event, emitted>>

NextPure ==
  \/ CallGenerateMaze
  \/ CallPickRandomCell
  \/ CallPlaceSpawns

SpecPure == InitPure /\ [][NextPure]_vars


\* ---------------------------------------------------------------- properties

\* Positions in msgs of the messages called name.
Sent(msgs, name) == { i \in 1..Len(msgs) : msgs[i].name = name }

Position(p) == <<p.x, p.y>>

Exit(p) == <<p.exitX, p.exitY>>

\* The tile a member's move in direction dir would enter, as <<x, y>>.
Target(room, s, dir) ==
  LET p == room.players[s]
  IN CASE dir = "up" -> <<p.x, p.y - 1>>
       [] dir = "down" -> <<p.x, p.y + 1>>
       [] dir = "left" -> <<p.x - 1, p.y>>
       [] dir = "right" -> <<p.x + 1, p.y>>

\* That tile is outside the grid or a wall.
Blocked(room, s, dir) ==
  LET t == Target(room, s, dir)
  IN \/ t[1] < 0 \/ t[2] < 0 \/ t[1] >= room.maze.width \/ t[2] >= room.maze.height
     \/ t \notin room.maze.grid

\* A move request of a member of an existing room, in one of the four directions.
MemberMove(s, roomId, dir) ==
  /\ roomId \in DOMAIN rooms
  /\ s \in DOMAIN rooms[roomId].players
  /\ dir \in MoveDirs
  /\ Move(s, roomId, dir)

\* What a pairing of the pending socket with s leaves behind.
C1_PairingEffect(s) ==
  LET A == waitingSocket
      found == Sent(emitted', "matchFound")
  IN /\ Cardinality(found) = 1
     /\ \A i \in found :
          LET r == emitted'[i].payload.roomId
          IN /\ emitted'[i].to = {A, s}
             /\ r \in DOMAIN rooms'
             /\ DOMAIN rooms'[r].players = {A, s}
             /\ DOMAIN emitted'[i].payload.players = {A, s}
             /\ DOMAIN rooms' = DOMAIN rooms \cup {r}
             /\ \A q \in DOMAIN rooms \ {r} : rooms'[q] = rooms[q]
     /\ waitingSocket' = NoSocket

\* C1: when B requests a match while a distinct A is pending, that event
\* sends exactly one match-found payload, to A and B, whose room id names a
\* registry entry with exactly the players A and B; it is the only entry
\* added or changed; and the pending slot is empty afterwards.
C1_PairingCreatesOneRoom ==
  [][\A s \in Sockets :
       (waitingSocket # NoSocket /\ waitingSocket # s /\ FindMatch(s)) => C1_PairingEffect(s)]_vars

\* C1 witness: a pairing has just happened beside an older room.
C1_Paired ==
  /\ event.kind = "findMatch"
  /\ event.pending # NoSocket
  /\ event.pending # event.socket
  /\ Sent(emitted, "matchFound") # {}
  /\ Cardinality(DOMAIN rooms) = 2

\* Every room of the registry has two distinct players.
C2_NoSelfPair == \A r \in DOMAIN rooms : Cardinality(DOMAIN rooms[r].players) = 2

\* C2: a match request from the participant that is already pending changes
\* nothing (pending slot, registry, channels, timers) and sends only a status
\* to the requester; and no room ever has a participant paired with itself.
C2_DuplicateRequestIsNoOp ==
  [][/\ \A s \in Sockets :
          (waitingSocket = s /\ FindMatch(s)) =>
            /\ waitingSocket' = s
            /\ rooms' = rooms
            /\ joined' = joined
            /\ timers' = timers
            /\ Len(emitted') = 1
            /\ emitted'[1].name = "status"
            /\ emitted'[1].to = {s}
     /\ C2_NoSelfPair']_vars

\* C2 witness: the pending participant asked again and is still pending.
C2_StillWaiting ==
  /\ event.kind = "findMatch"
  /\ event.socket = event.pending
  /\ waitingSocket = event.socket
  /\ Len(emitted) = 1

\* Room r is announced by this step; each goal of a room is the other player's position.
C3_CreatedNow(r) == \E i \in Sent(emitted', "matchFound") : emitted'[i].payload.roomId = r
C3_Mirrored(room) ==
  \A p, q \in DOMAIN room.players :
    p # q => Exit(room.players[p]) = Position(room.players[q])

\* C3: a room is created with each player's goal equal to the other player's
\* position (its spawn), and no later event changes a goal or a room's players.
C3_GoalsMirrorSpawns ==
  [][\A r \in DOMAIN rooms' :
       IF C3_CreatedNow(r)
       THEN C3_Mirrored(rooms'[r])
       ELSE /\ r \in DOMAIN rooms
            /\ DOMAIN rooms'[r].players = DOMAIN rooms[r].players
            /\ \A p \in DOMAIN rooms[r].players :
                 Exit(rooms'[r].players[p]) = Exit(rooms[r].players[p])]_vars

\* C3 witness: after a move, a player is away from its spawn, which is still
\* the other player's goal.
C3_MovedOffSpawn ==
  /\ event.kind = "move"
  /\ \E r \in DOMAIN rooms : \E p, q \in DOMAIN rooms[r].players :
       p # q /\ Exit(rooms[r].players[p]) # Position(rooms[r].players[q])

\* C4: a member's move whose candidate tile is outside the grid or a wall
\* changes no room and sends nothing.
C4_BlockedMoveIsNoOp ==
  [][\A r \in DOMAIN rooms : \A s \in DOMAIN rooms[r].players : \A d \in MoveDirs :
       (rooms' = rooms /\ emitted' = << >>) \/ ~(Blocked(rooms[r], s, d) /\ MemberMove(s, r, d))]_vars

\* C4 witness: a move was just rejected in a state where a member faces a wall.
C4_RejectedAtWall ==
  /\ event.kind = "move"
  /\ emitted = << >>
  /\ \E r \in DOMAIN rooms : \E s \in DOMAIN rooms[r].players : \E d \in MoveDirs :
       Blocked(rooms[r], s, d)

\* What a committed move of s in room r leaves behind.
C5_MoveEffect(s, r, d) ==
  LET t == Target(rooms[r], s, d)
      before == rooms[r].players[s]
  IN /\ DOMAIN rooms' = DOMAIN rooms
     /\ \A q \in DOMAIN rooms \ {r} : rooms'[q] = rooms[q]
     /\ rooms'[r].maze = rooms[r].maze
     /\ DOMAIN rooms'[r].players = DOMAIN rooms[r].players
     /\ \A p \in DOMAIN rooms[r].players \ {s} : rooms'[r].players[p] = rooms[r].players[p]
     /\ rooms'[r].players[s] = [before EXCEPT !.x = t[1], !.y = t[2]]
     /\ waitingSocket' = waitingSocket
     /\ Sent(emitted', "state") = {1}
     /\ emitted'[1].payload[s].x = t[1]
     /\ emitted'[1].payload[s].y = t[2]

\* C5: a member's move into an in-bounds empty tile puts exactly that player
\* on the candidate tile; the other player, both goals, both colors, the maze,
\* the pending slot and every other room are unchanged; and the state
\* broadcast of that event carries the new position.
C5_MoveChangesOnlyMover ==
  [][\A r \in DOMAIN rooms : \A s \in DOMAIN rooms[r].players : \A d \in MoveDirs :
       (~Blocked(rooms[r], s, d) /\ MemberMove(s, r, d)) => C5_MoveEffect(s, r, d)]_vars

\* C5 witness: a move has just been committed and broadcast.
C5_MoveCommitted ==
  /\ event.kind = "move"
  /\ Sent(emitted, "state") = {1}
  /\ movesLeft < MaxMoves

\* The broadcasts of a committed move of s in room r, by whether s reached its goal.
C6_WinBroadcasts(s, r) ==
  LET p == rooms'[r].players[s]
  IN IF Position(p) = Exit(p)
     THEN /\ Len(emitted') = 3
          /\ emitted'[2].name = "gameOver"
          /\ emitted'[2].payload = [winner |-> s, winnerColor |-> p.color]
          /\ emitted'[3].name = "revealMaze"
          /\ emitted'[3].payload = rooms'[r].maze.grid
          /\ Sent(emitted', "gameOver") = {2}
          /\ Sent(emitted', "revealMaze") = {3}
     ELSE Sent(emitted', "gameOver") = {} /\ Sent(emitted', "revealMaze") = {}

\* C6: a successful move that ends on the mover's goal sends, after the state,
\* exactly one game-over naming the mover and its color and then exactly one
\* reveal carrying the room's maze; any other successful move sends neither.
C6_GameOverThenReveal ==
  [][\A r \in DOMAIN rooms : \A s \in DOMAIN rooms[r].players : \A d \in MoveDirs :
       (~Blocked(rooms[r], s, d) /\ MemberMove(s, r, d)) => C6_WinBroadcasts(s, r)]_vars

\* C6 witness: a move has just won.
C6_JustWon ==
  /\ event.kind = "move"
  /\ Sent(emitted, "gameOver") # {}
  /\ \E r \in DOMAIN rooms : \E s \in DOMAIN rooms[r].players :
       Position(rooms[r].players[s]) = Exit(rooms[r].players[s])

\* C7: a room that recorded its win at time t leaves the registry, while no
\* socket disconnects, only by the teardown event and not before t + 4500 ms
\* (so the win event itself does not remove it).
C7_RoomStaysUntilDue ==
  [][\A r \in DOMAIN rooms \cap DOMAIN wonAt :
       (connected' = connected /\ r \notin DOMAIN rooms') =>
         (event'.kind = "teardown" /\ now >= wonAt[r] + TEARDOWN_MS)]_vars

\* C8: when the pending participant disconnects the pending slot becomes
\* empty; a request while the slot is empty makes the requester pending and
\* creates no room; and neither the pending slot nor any room of the registry
\* ever holds a disconnected participant.
C8_PendingDisconnect ==
  [][/\ \A s \in Sockets :
          /\ (waitingSocket = s /\ Disconnect(s)) => waitingSocket' = NoSocket
          /\ (waitingSocket = NoSocket /\ FindMatch(s)) => (waitingSocket' = s /\ rooms' = rooms)
     /\ waitingSocket' \in connected' \cup {NoSocket}
     /\ \A r \in DOMAIN rooms' : DOMAIN rooms'[r].players \subseteq connected']_vars

\* C8 witness: the pending participant has just disconnected.
C8_PendingGone ==
  /\ event.kind = "disconnect"
  /\ event.socket = event.pending
  /\ waitingSocket = NoSocket

\* C9: the disconnect of a room member removes, in that event, every room it
\* is a player of, and sends an opponent-disconnected notice to the other
\* player of each, whether or not the room has recorded a win.
C9_DisconnectRemovesRoom ==
  [][\A s \in Sockets : Disconnect(s) =>
       \A r \in DOMAIN rooms : s \in DOMAIN rooms[r].players =>
         /\ r \notin DOMAIN rooms'
         /\ \E i \in Sent(emitted', "opponentDisconnected") :
              emitted'[i].to = DOMAIN rooms[r].players \ {s}]_vars

\* C9 witness: a member of a room with a pending teardown has just
\* disconnected (no time has passed since the win).
C9_FinishedRoomClosed ==
  /\ event.kind = "disconnect"
  /\ Sent(emitted, "opponentDisconnected") # {}
  /\ timers # << >>
  /\ now = 0
  /\ rooms = << >>

\* C10: a teardown that fires for a room id no longer in the registry leaves
\* the registry, the channels and the pending slot as they were.
C10_LateTeardownIsNoOp ==
  [][(Teardown /\ Head(timers).roomId \notin DOMAIN rooms) =>
       (rooms' = rooms /\ joined' = joined /\ waitingSocket' = waitingSocket
        /\ connected' = connected)]_vars

\* C10 witness: a teardown has just fired after a disconnect had removed the
\* room (in the game scenario every room has both sockets as players).
C10_TeardownAfterDisconnect ==
  /\ event.kind = "teardown"
  /\ connected # {"a", "b"}
  /\ roomCap = 1

\* A move request that is malformed or stale: its direction is none of the
\* four, or its room id names no room of the registry, or its sender is not
\* a player of the named room.
C11_Malformed(s, roomId, dir) ==
  \/ dir \notin MoveDirs
  \/ roomId \notin DOMAIN rooms
  \/ s \notin DOMAIN rooms[roomId].players

\* C11: every malformed or stale move request is a silent no-op: the handler
\* raises no error, sends nothing, and leaves the pending slot, the registry
\* (so every player's state) and the connections as they were.
C11_MalformedMoveIsSilent ==
  [][\A s \in Sockets : \A req \in MoveInputs :
       (C11_Malformed(s, req[1], req[2]) /\ Move(s, req[1], req[2])) =>
         /\ event'.kind # "uncaught"
         /\ emitted' = << >>
         /\ waitingSocket' = waitingSocket
         /\ rooms' = rooms
         /\ connected' = connected]_vars

\* The tiles of the n x n logical cells: both coordinates odd.
CellTiles(n) == { <<2 * cx + 1, 2 * cy + 1>> : cx \in 0..(n - 1), cy \in 0..(n - 1) }

\* Two tiles that share an edge.
Adjacent(t, u) ==
  \/ t[1] = u[1] /\ (t[2] = u[2] + 1 \/ u[2] = t[2] + 1)
  \/ t[2] = u[2] /\ (t[1] = u[1] + 1 \/ u[1] = t[1] + 1)

\* Flood fill: the empty tiles of grid reachable from the tiles in seen.
RECURSIVE Flood(_, _)
Flood(grid, seen) ==
  LET more == seen \cup { t \in grid : \E u \in seen : Adjacent(t, u) }
  IN IF more = seen THEN seen ELSE Flood(grid, more)

\* m is a perfect maze over n x n cells.
PerfectMaze(n, m) ==
  /\ m.width = 2 * n + 1
  /\ m.height = 2 * n + 1
  /\ m.grid \subseteq (0..(2 * n)) \X (0..(2 * n))
  /\ CellTiles(n) \subseteq m.grid
  /\ Flood(m.grid, {<<1, 1>>}) = m.grid
  /\ Cardinality(m.grid \ CellTiles(n)) = n * n - 1

\* C12: whatever the shuffles, generateMaze(n) returns a (2n+1) x (2n+1)
\* grid in which all n*n cell tiles are empty, the empty tiles form one
\* connected component, and exactly n*n - 1 passage tiles are open.
C12_GeneratedMazeIsPerfect ==
  probe.fn = "generateMaze" => PerfectMaze(probe.n, probe.maze)

\* C12 witness: generateMaze has returned a maze of the largest size.
C12_LargestMazeGenerated ==
  /\ probe.fn = "generateMaze"
  /\ probe.n = MaxMazeN
  /\ Cardinality(probe.maze.grid) = 2 * MaxMazeN * MaxMazeN - 1

\* C13: on a grid with at least one empty tile, whatever the region test,
\* pickRandomCell returns a tile inside the grid that is empty; and when
\* some empty tile passes the region test, so does the returned tile.
C13_PickedCellIsEmpty ==
  (probe.fn = "pickRandomCell" /\ probe.maze.grid # {}) =>
    LET c == probe.cell
        m == probe.maze
    IN /\ c.x >= 0 /\ c.x < m.width
       /\ c.y >= 0 /\ c.y < m.height
       /\ <<c.x, c.y>> \in m.grid
       /\ (\E t \in m.grid : [x |-> t[1], y |-> t[2]] \in probe.region) => c \in probe.region

\* C13 witness: no empty tile passes the region test that does accept some
\* tile, and the last tier returned an empty tile other than (1, 1).
C13_AnyEmptyTier ==
  /\ probe.fn = "pickRandomCell"
  /\ probe.maze.grid # {}
  /\ probe.region # {}
  /\ \A t \in probe.maze.grid : [x |-> t[1], y |-> t[2]] \notin probe.region
  /\ <<probe.cell.x, probe.cell.y>> # <<1, 1>>

\* Squared distance between two {x, y} cells.
SquaredDistance(a, b) == (a.x - b.x) * (a.x - b.x) + (a.y - b.y) * (a.y - b.y)

\* distance(a, b) >= 0.45 * max(W, H), squared and scaled by 400.
FarApart(m, a, b) ==
  LET side == IF m.width >= m.height THEN m.width ELSE m.height
  IN 400 * SquaredDistance(a, b) >= 81 * side * side

\* b is the first tile, in row-major order, among the empty tiles of m at
\* maximal distance from a.
FirstFarthest(m, a, b) ==
  /\ <<b.x, b.y>> \in m.grid
  /\ \A t \in m.grid :
       LET e == [x |-> t[1], y |-> t[2]]
       IN /\ SquaredDistance(a, e) <= SquaredDistance(a, b)
          /\ SquaredDistance(a, e) = SquaredDistance(a, b) =>
               (b.y < e.y \/ (b.y = e.y /\ b.x <= e.x))

\* C14: on a generated maze, whatever the draws, the two spawns are at
\* Euclidean distance >= 0.45 * max(W, H), or the second spawn is the first
\* empty tile in row-major order at maximal distance from the first spawn.
C14_SpawnsFarOrFarthest ==
  probe.fn = "placeSpawns" =>
    \/ FarApart(probe.maze, probe.aStart, probe.bStart)
    \/ FirstFarthest(probe.maze, probe.aStart, probe.bStart)

\* C14 witness: the spawns are closer than the minimum, so the second one
\* comes from the exhaustive scan, and another empty tile is as far from the
\* first spawn as the second spawn is.
C14_FallbackWithTie ==
  /\ probe.fn = "placeSpawns"
  /\ probe.n > 1
  /\ ~FarApart(probe.maze, probe.aStart, probe.bStart)
  /\ \E t \in probe.maze.grid :
       /\ t # <<probe.bStart.x, probe.bStart.y>>
       /\ SquaredDistance(probe.aStart, [x |-> t[1], y |-> t[2]])
            = SquaredDistance(probe.aStart, probe.bStart)

\* The player map of room has exactly two entries, each keyed by its
\* player's identity.
TwoPlayers(room) ==
  /\ Cardinality(DOMAIN room.players) = 2
  /\ \A p \in DOMAIN room.players : room.players[p].id = p

\* C15: every room of the registry has a player map of exactly two entries
\* keyed by two distinct identities, and as long as a room id stays in the
\* registry its two identities stay the same.
C15_TwoPlayersForLife ==
  [][/\ \A r \in DOMAIN rooms' : TwoPlayers(rooms'[r])
     /\ \A r \in DOMAIN rooms \cap DOMAIN rooms' :
          DOMAIN rooms'[r].players = DOMAIN rooms[r].players]_vars

\* C15 witness: a room is in the registry after moves, a win and a pairing
\* that re-used its id while the teardown of the win was pending.
C15_RoomAfterWinAndRepairing ==
  /\ timers # << >>
  /\ Head(timers).roomId \in DOMAIN rooms
  /\ Head(timers).roomId \notin DOMAIN wonAt
  /\ movesLeft < MaxMoves - 4

\* The room ids the two sockets of the game scenario can be given.
FairRoomIds ==
  { <<"r", p[1], p[2], t * TickMs>> :
      p \in {<<"a", "b">>, <<"b", "a">>}, t \in 0..(MaxClock \div TickMs + 2) }

\* C16: when the due teardown timer fires, every room that has recorded a
\* win is eventually out of the registry; and a room id enters the registry
\* only by a pairing, never by a move or a timer.
C16_WonRoomEventuallyRemoved ==
  /\ [](DOMAIN rooms \subseteq FairRoomIds)
  /\ \A r \in FairRoomIds :
       (r \in DOMAIN rooms /\ r \in DOMAIN wonAt) ~> (r \notin DOMAIN rooms)
  /\ [][\A r \in DOMAIN rooms' \ DOMAIN rooms : event'.kind = "findMatch"]_vars

\* C16 witness: the teardown of a win has just removed its room, with both
\* players still connected.
C16_TornDownAfterWin ==
  /\ event.kind = "teardown"
  /\ connected = {"a", "b"}
  /\ rooms = << >>
  /\ movesLeft = 0
  /\ now >= TEARDOWN_MS

\* C17: once a room has recorded a win (its teardown is pending), no later
\* move sends another game-over or reveal or schedules another teardown.
C17_WinAtMostOnce ==
  [][(event'.kind = "move" /\ DOMAIN rooms \cap DOMAIN wonAt # {}) =>
       /\ Sent(emitted', "gameOver") = {}
       /\ Sent(emitted', "revealMaze") = {}
       /\ timers' = timers]_vars

\* An open tile the carving may open: inside the border, and either a cell
\* tile (both coordinates odd) or the tile between two orthogonally adjacent
\* cell tiles (one coordinate odd, one even).
Carvable(n, t) ==
  /\ t[1] > 0 /\ t[1] < 2 * n
  /\ t[2] > 0 /\ t[2] < 2 * n
  /\ t[1] % 2 = 1 \/ t[2] % 2 = 1

\* C18: in a generated maze every border tile and every tile with both
\* coordinates even is a wall: the open tiles are cell tiles and tiles
\* between two orthogonally adjacent cells.
C18_BorderAndPillarsAreWalls ==
  probe.fn = "generateMaze" => \A t \in probe.maze.grid : Carvable(probe.n, t)

\* C18 witness: a generated maze with a passage open between two cells side
\* by side and one between two cells one above the other.
C18_BothKindsOfPassage ==
  /\ probe.fn = "generateMaze"
  /\ \E t \in probe.maze.grid : t[1] % 2 = 0 /\ t[2] % 2 = 1
  /\ \E t \in probe.maze.grid : t[1] % 2 = 1 /\ t[2] % 2 = 0

\* C19: in every reachable state every player of every room stands on a
\* tile of the room's maze that is inside the grid and empty.
C19_PlayersOnEmptyTiles ==
  \A r \in DOMAIN rooms : \A p \in DOMAIN rooms[r].players :
    LET q == rooms[r].players[p]
        m == rooms[r].maze
    IN /\ q.x >= 0 /\ q.x < m.width
       /\ q.y >= 0 /\ q.y < m.height
       /\ <<q.x, q.y>> \in m.grid

\* C19 witness: after valid and rejected moves of both players, one stands
\* in a passage between two cells and the other has left its spawn.
C19_BothMoved ==
  /\ event.kind = "move"
  /\ emitted = << >>
  /\ movesLeft <= MaxMoves - 3
  /\ \E r \in DOMAIN rooms : \E p, q \in DOMAIN rooms[r].players :
       /\ p # q
       /\ (rooms[r].players[p].x + rooms[r].players[p].y) % 2 = 1
       /\ <<rooms[r].players[p].x, rooms[r].players[p].y>>
            # <<rooms[r].players[q].exitX, rooms[r].players[q].exitY>>
       /\ <<rooms[r].players[q].x, rooms[r].players[q].y>>
            # <<rooms[r].players[p].exitX, rooms[r].players[p].exitY>>

\* C20: a pairing announces a room id that was not in the registry before
\* the pairing: creating a room never replaces an existing room.
C20_PairingNeverOverwrites ==
  [][event'.kind = "findMatch" =>
       \A i \in Sent(emitted', "matchFound") :
         /\ emitted'[i].payload.roomId \in DOMAIN rooms'
         /\ emitted'[i].payload.roomId \notin DOMAIN rooms]_vars

\* The rooms of the registry that hold socket s as a player.
MemberRooms(s) == {r \in DOMAIN rooms : s \in DOMAIN rooms[r].players}

\* C21: in every reachable state every participant is a player of at most
\* one room of the registry, and the pending participant is a player of no
\* room.
C21_OneRoomPerParticipant ==
  /\ \A s \in Sockets : Cardinality(MemberRooms(s)) <= 1
  /\ waitingSocket # NoSocket => MemberRooms(waitingSocket) = {}

\* Every spawn placement on a maze of the size the server uses ends with two
\* different tiles.
ServerSpawnsDiffer == \A m \in ServerMazes : \A sp \in PlaceSpawns(m) : sp[1] # sp[2]

\* C22: for mazes of the server's size the two spawns of a placement are
\* different tiles; every room announced by a pairing starts each player off
\* its goal; in every room with no win recorded no player stands on its
\* goal; and a game-over is only ever sent by a move.
C22_NoPlayerStartsOnGoal ==
  /\ ServerSpawnsDiffer
  /\ \A i \in Sent(emitted, "matchFound") : \A p \in DOMAIN emitted[i].payload.players :
       ~AtExit(emitted[i].payload.players[p])
  /\ \A r \in DOMAIN rooms \ DOMAIN wonAt : \A p \in DOMAIN rooms[r].players :
       ~AtExit(rooms[r].players[p])
  /\ Sent(emitted, "gameOver") # {} => event.kind = "move"

\* C22 witness: a move has just won a room, sending the game-over, while on
\* a maze of the server's size a draw of the placement can come out as one
\* tile for both players (a tile of the left column in the bottom rows
\* passes both region tests).
C22_WonByMove ==
  /\ event.kind = "move"
  /\ Sent(emitted, "gameOver") # {}
  /\ \E r \in DOMAIN rooms \cap DOMAIN wonAt : \E p \in DOMAIN rooms[r].players :
       AtExit(rooms[r].players[p])
  /\ \E m \in ServerMazes : \E c \in EmptyCells(m) :
       leftTopTest(m, c.x, c.y) /\ rightBottomTest(m, c.x, c.y)

====
